---- MODULE Spec2Model ----
(***************************************************************************)
(* Model of the `create` command of brew-tool (src/cmds/create.go): the    *)
(* pipeline runCreate -> buildFormula -> WriteFile -> upload, and the      *)
(* create-or-update protocol of upload against the GitHub contents API.    *)
(*                                                                         *)
(* Go strings are modelled as sequences of one-character strings, so that  *)
(* split and formulaNameFor are computed character by character.           *)
(***************************************************************************)
EXTENDS Integers, Sequences, FiniteSets, TLC

----------------------------------------------------------------------------
(* Bounds of the model.                                                    *)

\* Number of operating-system processes that may run the command.
NumProcs == 2

\* The revision counter of a stored file is capped: no invocation starts and
\* no outside edit happens once the revisions of all paths add up to MaxRev.
MaxRev == 3

Procs == 1..NumProcs

----------------------------------------------------------------------------
(* Strings.                                                                *)

Lower == <<"a","b","c","d","e","f","g","h","i","j","k","l","m","n","o","p","q","r","s","t","u","v","w","x","y","z">>
Upper == <<"A","B","C","D","E","F","G","H","I","J","K","L","M","N","O","P","Q","R","S","T","U","V","W","X","Y","Z">>
Digits == <<"0","1","2","3","4","5","6","7","8","9">>

Range(s) == {s[i] : i \in DOMAIN s}

\* unicode.IsSpace restricted to the ASCII characters the model writes.
IsSpace(c) == c \in {" ", "\t", "\n", "\r"}

\* strings.TrimSpace: drop leading and trailing white space.
RECURSIVE TrimLeft(_)
TrimLeft(s) == IF s # <<>> /\ IsSpace(Head(s)) THEN TrimLeft(Tail(s)) ELSE s

RECURSIVE TrimRight(_)
TrimRight(s) ==
    IF s # <<>> /\ IsSpace(s[Len(s)]) THEN TrimRight(SubSeq(s, 1, Len(s) - 1)) ELSE s

TrimSpace(s) == TrimRight(TrimLeft(s))

\* strings.Split(s, "\n"): the pieces between the newlines, empty pieces kept;
\* a string with n newlines yields n+1 pieces.
RECURSIVE SplitLines(_, _)
SplitLines(s, cur) ==
    IF s = <<>> THEN <<cur>>
    ELSE IF Head(s) = "\n" THEN <<cur>> \o SplitLines(Tail(s), <<>>)
    ELSE SplitLines(Tail(s), Append(cur, Head(s)))

\* strings.Replace(s, old, new, -1) for a one-character old and new.
ReplaceChar(s, old, new) == [i \in DOMAIN s |-> IF s[i] = old THEN new ELSE s[i]]

\* strings.Replace(s, old, "", -1) for a one-character old.
RECURSIVE RemoveChar(_, _)
RemoveChar(s, old) ==
    IF s = <<>> THEN <<>>
    ELSE IF Head(s) = old THEN RemoveChar(Tail(s), old)
    ELSE <<Head(s)>> \o RemoveChar(Tail(s), old)

\* strings.Title's isSeparator: ASCII letters, digits and the underscore are
\* not separators; every other ASCII character is.
IsSeparator(c) == ~(c \in Range(Lower) \cup Range(Upper) \cup Range(Digits) \cup {"_"})

\* unicode.ToTitle on ASCII.
ToTitle(c) ==
    IF c \in Range(Lower) THEN Upper[CHOOSE i \in DOMAIN Lower : Lower[i] = c] ELSE c

\* strings.Title: the first character after a separator (or at the start) is
\* mapped through ToTitle, every other character is kept.
Title(s) ==
    [i \in DOMAIN s |->
        IF i = 1 \/ IsSeparator(s[i - 1]) THEN ToTitle(s[i]) ELSE s[i]]

----------------------------------------------------------------------------
(* Pure functions of create.go.                                            *)

\* split without the test for the single empty piece.
splitKeepsEmpty(s) == SplitLines(TrimSpace(s), <<>>)

split(s) ==
    LET strs == SplitLines(TrimSpace(s), <<>>)
    IN  IF Len(strs) = 1 /\ strs[1] = <<>> THEN <<>> ELSE strs

\* formulaNameFor without the replacement of the underscores.
formulaNameForKeepsUnderscore(name) ==
    RemoveChar(Title(ReplaceChar(name, "-", " ")), " ")

formulaNameFor(name) ==
    RemoveChar(Title(ReplaceChar(ReplaceChar(name, "-", " "), "_", " ")), " ")

\* crypto/sha256 followed by hex.EncodeToString, on the artifact contents the
\* model reads: the published test vectors of the empty file and of "hello".
Sha256Hex(bytes) ==
    IF bytes = <<>>
    THEN <<"e","3","b","0","c","4","4","2","9","8","f","c","1","c","1","4","9","a","f","b","f","4","c","8","9","9","6","f","b","9","2","4","2","7","a","e","4","1","e","4","6","4","9","b","9","3","4","c","a","4","9","5","9","9","1","b","7","8","5","2","b","8","5","5">>
    ELSE <<"2","c","f","2","4","d","b","a","5","f","b","0","a","3","0","e","2","6","e","8","3","b","2","a","c","5","b","9","e","2","9","e","1","b","1","6","1","e","5","c","1","f","a","7","4","2","5","e","7","3","0","4","3","3","6","2","9","3","8","b","9","8","2","4">>

----------------------------------------------------------------------------
(* Inputs and data of one invocation.                                      *)

\* The values the --owner and --repo flags take in the model; the empty
\* string is the default of both flags.
Owners == {<<>>, <<"a","c","m","e">>}
Repos == {<<>>, <<"t","o","o","l","-","x">>}

\* Outputs of `git tag -l --points-at HEAD`.
Tags == {<<"v","1">>, <<"v","2">>}

\* Contents of the artifact file dist/<name>/<name>-darwin-amd64.
ArtifactBytes == {<<"h","e","l","l","o">>}

\* The Homebrew value NewCmdCreate hands to runCreate: the flags the model
\* varies, every other field at its flag default.
Homebrew(owner, repo, skipUpload) ==
    [ Name         |-> <<>>,
      Owner        |-> owner,
      Repo         |-> repo,
      BrewOwner    |-> <<"a","p","p","s","c","o","d","e">>,
      BrewRepo     |-> <<"h","o","m","e","b","r","e","w","-","t","a","p">>,
      Author       |-> <<"1","g","t","m">>,
      AuthorEmail  |-> <<"1","g","t","m","@","a","p","p","s","c","o","d","e",".","c","o","m">>,
      Folder       |-> <<>>,
      Caveats      |-> <<>>,
      Plist        |-> <<>>,
      Install      |-> <<>>,
      Dependencies |-> <<>>,
      Test         |-> <<>>,
      Conflicts    |-> <<>>,
      Description  |-> <<>>,
      Homepage     |-> <<"h","t","t","p","s",":","/","/","a","p","p","s","c","o","d","e",".","c","o","m">>,
      SkipUpload   |-> skipUpload ]

DarwinAmd64 == <<"-","d","a","r","w","i","n","-","a","m","d","6","4">>

\* runCreate without line 75: the install line is left as the caller gave it.
WithNameOnly(b) == [b EXCEPT !.Name = b.Repo]

\* runCreate, lines 74-75: the name is the repo, the install line is derived.
WithNameAndInstall(b) ==
    [b EXCEPT !.Name = b.Repo,
              !.Install = <<"b","i","n",".","i","n","s","t","a","l","l"," ">> \o b.Repo \o DarwinAmd64]

\* runCreate, lines 82-86.
Artifact(b, tag) ==
    [ Name    |-> b.Name \o DarwinAmd64,
      Path    |-> <<"d","i","s","t","/">> \o b.Name \o <<"/">> \o b.Name \o DarwinAmd64,
      Version |-> tag ]

\* dataFor, lines 189-205, once calculate has returned sum.
templateData(b, a, sum) ==
    [ Name         |-> formulaNameFor(b.Name),
      DownloadURL  |-> <<"h","t","t","p","s",":","/","/","g","i","t","h","u","b",".","c","o","m">>,
      Desc         |-> b.Description,
      Homepage     |-> b.Homepage,
      Owner        |-> b.Owner,
      Repo         |-> b.Repo,
      Tag          |-> a.Version,
      Version      |-> a.Version,
      Caveats      |-> split(b.Caveats),
      File         |-> a.Name,
      SHA256       |-> sum,
      Dependencies |-> b.Dependencies,
      Conflicts    |-> b.Conflicts,
      Plist        |-> b.Plist,
      Install      |-> split(b.Install) ]

Quote == <<"\"">>

\* One line per element of a list field: prefix, the element, a closing quote.
Statements(prefix, list) == [i \in DOMAIN list |-> prefix \o list[i] \o Quote]

Indented(list) == [i \in DOMAIN list |-> <<" "," "," "," ">> \o list[i]]

\* The manifest text, as its sequence of lines: name declaration, description
\* and homepage, the release-asset URL, version, checksum, one statement per
\* dependency and conflict, the install block, the background-service block
\* when a descriptor is present, the caveats block when there are caveats.
formulaTemplate(d) ==
       << <<"c","l","a","s","s"," ">> \o d.Name \o <<" ","<"," ","F","o","r","m","u","l","a">>,
          <<" "," ","d","e","s","c"," ","\"">> \o d.Desc \o Quote,
          <<" "," ","h","o","m","e","p","a","g","e"," ","\"">> \o d.Homepage \o Quote,
          <<" "," ","u","r","l"," ","\"">> \o d.DownloadURL \o <<"/">> \o d.Owner \o <<"/">> \o d.Repo
              \o <<"/","r","e","l","e","a","s","e","s","/","d","o","w","n","l","o","a","d","/">>
              \o d.Tag \o <<"/">> \o d.File \o Quote,
          <<" "," ","v","e","r","s","i","o","n"," ","\"">> \o d.Version \o Quote,
          <<" "," ","s","h","a","2","5","6"," ","\"">> \o d.SHA256 \o Quote >>
    \o Statements(<<" "," ","d","e","p","e","n","d","s","_","o","n"," ","\"">>, d.Dependencies)
    \o Statements(<<" "," ","c","o","n","f","l","i","c","t","s","_","w","i","t","h"," ","\"">>, d.Conflicts)
    \o << <<" "," ","d","e","f"," ","i","n","s","t","a","l","l">> >>
    \o Indented(d.Install)
    \o << <<" "," ","e","n","d">> >>
    \o (IF d.Plist = <<>> THEN <<>>
        ELSE << <<" "," ","d","e","f"," ","p","l","i","s","t",";"," ","<","<","~","E","O","S">>,
                <<" "," "," "," ">> \o d.Plist,
                <<" "," ","E","O","S">>, <<" "," ","e","n","d">> >>)
    \o (IF d.Caveats = <<>> THEN <<>>
        ELSE << <<" "," ","d","e","f"," ","c","a","v","e","a","t","s",";"," ","<","<","~","E","O","S">> >>
             \o Indented(d.Caveats)
             \o << <<" "," ","E","O","S">>, <<" "," ","e","n","d">> >>)
    \o << <<"e","n","d">> >>

\* runCreate, line 103: the commit message.
Message(a) ==
    <<"B","r","e","w"," ","f","o","r","m","u","l","a"," ","u","p","d","a","t","e"," ","f","o","r"," ">>
    \o a.Name \o <<" ","v","e","r","s","i","o","n"," ">> \o a.Version

\* runCreate, line 104: the path of the formula in the tap repository.
RemotePath(b) == b.Name \o <<".","r","b">>

\* Options built from an empty buffer and not from the rendered one.
OptionsOfEmptyBuffer(b, content, message) ==
    [ Committer |-> [Name |-> b.Author, Email |-> b.AuthorEmail],
      Content   |-> <<>>,
      Message   |-> message,
      SHA       |-> <<>> ]

\* upload, lines 124-131: the options of the write, with no SHA yet.
Options(b, content, message) ==
    [ Committer |-> [Name |-> b.Author, Email |-> b.AuthorEmail],
      Content   |-> content,
      Message   |-> message,
      SHA       |-> <<>> ]

----------------------------------------------------------------------------
(* State.                                                                  *)

\* An optional Go value (a pointer that may be nil, a value not yet computed)
\* is a sequence of length at most one: <<>> is nil, <<v>> is v.
Nil == <<>>
Some(v) == <<v>>

VARIABLES
    pc,        \* pc[p]: the statement process p is at
    brew,      \* brew[p]: the Homebrew value of runCreate
    hasToken,  \* hasToken[p]: GH_TOOLS_TOKEN is set in p's environment
    artifact,  \* artifact[p]: the Artifact, once the tag is resolved
    sum,       \* sum[p]: the digest calculate returned
    data,      \* data[p]: the templateData dataFor returned
    content,   \* content[p]: the rendered formula
    dist,      \* dist[p]: the file dist/<name>.rb written by p
    options,   \* options[p]: the RepositoryContentFileOptions of upload
    resp,      \* resp[p]: what GetContents returned (file, res, err)
    werr,      \* werr[p]: what CreateFile or UpdateFile returned ("" before)
    calls,     \* calls[p]: the calls p made to the GitHub API, in order
    trace,     \* trace[p]: the stages of runCreate p has executed, in order
    exit,      \* exit[p]: "" while running, then "ok", "panic" or the error
    store,     \* store[path]: the file of the tap repository at path
    arg,       \* arg: the string a pure function is applied to
    fn,        \* fn: the pure function that was applied ("" before)
    ret        \* ret: what the function returned

vars == <<pc, brew, hasToken, artifact, sum, data, content, dist, options, resp, werr,
          calls, trace, exit, store, arg, fn, ret>>

\* The variables of the runs of the command, and those of the applications of
\* its pure functions.
run == <<pc, brew, hasToken, artifact, sum, data, content, dist, options, resp, werr,
         calls, trace, exit, store>>

pure == <<arg, fn, ret>>

Paths == {r \o <<".","r","b">> : r \in Repos}

RECURSIVE RevSum(_, _)
RevSum(st, paths) ==
    IF paths = {} THEN 0
    ELSE LET q == CHOOSE x \in paths : TRUE
         IN  (IF st[q] = Nil THEN 0 ELSE st[q][1].SHA) + RevSum(st, paths \ {q})

\* No process runs the command and the tap repository is empty.
InitRun ==
    /\ pc = [p \in Procs |-> "idle"]
    /\ brew = [p \in Procs |-> Nil]
    /\ hasToken = [p \in Procs |-> FALSE]
    /\ artifact = [p \in Procs |-> Nil]
    /\ sum = [p \in Procs |-> Nil]
    /\ data = [p \in Procs |-> Nil]
    /\ content = [p \in Procs |-> Nil]
    /\ dist = [p \in Procs |-> Nil]
    /\ options = [p \in Procs |-> Nil]
    /\ resp = [p \in Procs |-> Nil]
    /\ werr = [p \in Procs |-> ""]
    /\ calls = [p \in Procs |-> <<>>]
    /\ trace = [p \in Procs |-> <<>>]
    /\ exit = [p \in Procs |-> ""]
    /\ store = [q \in Paths |-> Nil]

Init ==
    /\ InitRun
    /\ arg = <<>>
    /\ fn = ""
    /\ ret = <<>>

----------------------------------------------------------------------------
(* runCreate.                                                              *)

\* The command is started with flags and an environment out of the given
\* sets: cobra hands runCreate the parsed flags; lines 74-75 set the name and
\* the install line.
StartWith(p, owners, repos, skips, tokens) ==
    /\ pc[p] = "idle"
    /\ RevSum(store, Paths) < MaxRev
    /\ \E owner \in owners, repo \in repos, skipUpload \in skips, token \in tokens :
          /\ brew' = [brew EXCEPT ![p] = Some(WithNameAndInstall(Homebrew(owner, repo, skipUpload)))]
          /\ hasToken' = [hasToken EXCEPT ![p] = token]
    /\ pc' = [pc EXCEPT ![p] = "tag"]
    /\ UNCHANGED <<artifact, sum, data, content, dist, options, resp, werr, calls, trace, exit, store>>
    /\ UNCHANGED pure

\* The command is started, with any flags and environment.
Start(p) == StartWith(p, Owners, Repos, BOOLEAN, BOOLEAN)

\* Lines 77-86: git.Clean(git.Run("tag", ...)) returns the tag or an error;
\* an error is fatal, a tag gives the Artifact.
ResolveTag(p) ==
    /\ pc[p] = "tag"
    /\ trace' = [trace EXCEPT ![p] = Append(@, "tag")]
    /\ \/ /\ pc' = [pc EXCEPT ![p] = "fatal"]
          /\ exit' = [exit EXCEPT ![p] = "ErrGit"]
          /\ UNCHANGED artifact
       \/ \E tag \in Tags :
          /\ artifact' = [artifact EXCEPT ![p] = Some(Artifact(brew[p][1], tag))]
          /\ pc' = [pc EXCEPT ![p] = "calculate"]
          /\ UNCHANGED exit
    /\ UNCHANGED <<brew, hasToken, sum, data, content, dist, options, resp, werr, calls, store>>
    /\ UNCHANGED pure

\* calculate without the test of the error of io.Copy: the digest of what
\* was read before the failure is returned as the digest of the file.
calculateIgnoresReadError(file) ==
    IF file.err = "ErrOpen"
    THEN [sum |-> <<>>, err |-> file.err]
    ELSE [sum |-> Sha256Hex(file.bytes), err |-> "nil"]

\* What calculate returns for each outcome of os.Open and io.Copy: the digest
\* of the whole file and no error, or the empty string and the error.
calculate(file) ==
    IF file.err # "nil"
    THEN [sum |-> <<>>, err |-> file.err]
    ELSE [sum |-> Sha256Hex(file.bytes), err |-> "nil"]

\* What the file system answers for the artifact path: os.Open fails, a read
\* of io.Copy fails, or the whole file is read.
ArtifactFiles ==
    {[err |-> e, bytes |-> <<>>] : e \in {"ErrOpen", "ErrRead"}}
        \cup {[err |-> "nil", bytes |-> b] : b \in ArtifactBytes}

\* Lines 88, 167, 185-188: buildFormula calls dataFor, which calls calculate;
\* an error comes back through dataFor and buildFormula and is fatal.
Calculate(p) ==
    /\ pc[p] = "calculate"
    /\ trace' = [trace EXCEPT ![p] = Append(@, "calculate")]
    /\ \E file \in ArtifactFiles :
          LET r == calculate(file)
          IN  IF r.err # "nil"
              THEN /\ pc' = [pc EXCEPT ![p] = "fatal"]
                   /\ exit' = [exit EXCEPT ![p] = r.err]
                   /\ UNCHANGED sum
              ELSE /\ sum' = [sum EXCEPT ![p] = Some(r.sum)]
                   /\ pc' = [pc EXCEPT ![p] = "dataFor"]
                   /\ UNCHANGED exit
    /\ UNCHANGED <<brew, hasToken, artifact, data, content, dist, options, resp, werr, calls, store>>
    /\ UNCHANGED pure

\* Lines 189-205: dataFor assembles the templateData.
DataFor(p) ==
    /\ pc[p] = "dataFor"
    /\ trace' = [trace EXCEPT ![p] = Append(@, "dataFor")]
    /\ data' = [data EXCEPT ![p] = Some(templateData(brew[p][1], artifact[p][1], sum[p][1]))]
    /\ pc' = [pc EXCEPT ![p] = "render"]
    /\ UNCHANGED <<brew, hasToken, artifact, sum, content, dist, options, resp, werr, calls, exit, store>>
    /\ UNCHANGED pure

\* Lines 171, 174-182, 89-91: doBuildFormula parses and executes the template;
\* an error of either is fatal in runCreate.
DoBuildFormula(p) ==
    /\ pc[p] = "render"
    /\ trace' = [trace EXCEPT ![p] = Append(@, "render")]
    /\ \/ /\ pc' = [pc EXCEPT ![p] = "fatal"]
          /\ exit' = [exit EXCEPT ![p] = "ErrTemplate"]
          /\ UNCHANGED content
       \/ /\ content' = [content EXCEPT ![p] = Some(formulaTemplate(data[p][1]))]
          /\ pc' = [pc EXCEPT ![p] = "write"]
          /\ UNCHANGED exit
    /\ UNCHANGED <<brew, hasToken, artifact, sum, data, dist, options, resp, werr, calls, store>>
    /\ UNCHANGED pure

\* WriteFile with the skip-upload test moved before the write: nothing is
\* written when the formula is not to be published.
WriteFileUnlessSkipped(p) ==
    /\ pc[p] = "write"
    /\ trace' = [trace EXCEPT ![p] = Append(@, "write")]
    /\ \/ /\ pc' = [pc EXCEPT ![p] = "fatal"]
          /\ exit' = [exit EXCEPT ![p] = "ErrWrite"]
          /\ UNCHANGED dist
       \/ /\ dist' = [dist EXCEPT ![p] = IF brew[p][1].SkipUpload THEN Nil ELSE content[p]]
          /\ pc' = [pc EXCEPT ![p] = "skip"]
          /\ UNCHANGED exit
    /\ UNCHANGED <<brew, hasToken, artifact, sum, data, content, options, resp, werr, calls, store>>
    /\ UNCHANGED pure

\* WriteFile whose error is logged but does not end the process.
WriteFileErrorIgnored(p) ==
    /\ pc[p] = "write"
    /\ trace' = [trace EXCEPT ![p] = Append(@, "write")]
    /\ \/ /\ pc' = [pc EXCEPT ![p] = "skip"]
          /\ exit' = [exit EXCEPT ![p] = "ErrWrite"]
          /\ UNCHANGED dist
       \/ /\ dist' = [dist EXCEPT ![p] = content[p]]
          /\ pc' = [pc EXCEPT ![p] = "skip"]
          /\ UNCHANGED exit
    /\ UNCHANGED <<brew, hasToken, artifact, sum, data, content, options, resp, werr, calls, store>>
    /\ UNCHANGED pure

\* Lines 93-97: ioutil.WriteFile of the formula to dist/<name>.rb; an error
\* is fatal.
WriteFile(p) ==
    /\ pc[p] = "write"
    /\ trace' = [trace EXCEPT ![p] = Append(@, "write")]
    /\ \/ /\ pc' = [pc EXCEPT ![p] = "fatal"]
          /\ exit' = [exit EXCEPT ![p] = "ErrWrite"]
          /\ UNCHANGED dist
       \/ /\ dist' = [dist EXCEPT ![p] = content[p]]
          /\ pc' = [pc EXCEPT ![p] = "skip"]
          /\ UNCHANGED exit
    /\ UNCHANGED <<brew, hasToken, artifact, sum, data, content, options, resp, werr, calls, store>>
    /\ UNCHANGED pure

\* SkipUpload without the test of the flag: runCreate always goes on to upload.
SkipUploadIgnored(p) ==
    /\ pc[p] = "skip"
    /\ pc' = [pc EXCEPT ![p] = "upload"]
    /\ UNCHANGED <<brew, hasToken, artifact, sum, data, content, dist, options, resp, werr, calls, trace, exit, store>>
    /\ UNCHANGED pure

\* Lines 99-101: with --skip-upload runCreate returns here.
SkipUpload(p) ==
    /\ pc[p] = "skip"
    /\ IF brew[p][1].SkipUpload
       THEN /\ pc' = [pc EXCEPT ![p] = "done"]
            /\ exit' = [exit EXCEPT ![p] = "ok"]
       ELSE /\ pc' = [pc EXCEPT ![p] = "upload"]
            /\ UNCHANGED exit
    /\ UNCHANGED <<brew, hasToken, artifact, sum, data, content, dist, options, resp, werr, calls, trace, store>>
    /\ UNCHANGED pure

----------------------------------------------------------------------------
(* The tap repository behind the GitHub contents API.                      *)

\* A response of Repositories.GetContents: the file (nil or its SHA), the
\* HTTP response (nil or its status code) and the error ("nil" for none).
Response(file, res, err) == [file |-> file, res |-> res, err |-> err]

\* What GetContents answers from the state of the repository: the file and
\* its SHA with status 200, or an error with status 404.
Lookup(st, path) ==
    IF st[path] = Nil
    THEN Response(Nil, Some([StatusCode |-> 404]), "Err404")
    ELSE Response(Some([SHA |-> st[path][1].SHA]), Some([StatusCode |-> 200]), "nil")

\* The other answers of GetContents: a bad credential, a rate limit, a server
\* error, a transport failure (no response at all), and a path that is a
\* directory (a listing, no file and no error).
GetFaults ==
    { Response(Nil, Some([StatusCode |-> 401]), "Err401"),
      Response(Nil, Some([StatusCode |-> 403]), "ErrRateLimit"),
      Response(Nil, Some([StatusCode |-> 500]), "Err500"),
      Response(Nil, Nil, "ErrTransport"),
      Response(Nil, Some([StatusCode |-> 200]), "nil") }

\* The errors CreateFile and UpdateFile may return whatever the repository
\* holds.
WriteFaults == {"Err502"}

\* The repository accepts a create of an absent path, and rejects one of an
\* existing path (422).
CreateResult(st, path, opts) ==
    IF st[path] = Nil
    THEN [err |-> "nil", st |-> [st EXCEPT ![path] = Some([SHA |-> 1, content |-> opts.Content])]]
    ELSE [err |-> "Err422", st |-> st]

\* The repository accepts an update that carries the current SHA of the file,
\* and rejects any other (409: the SHA is stale).
UpdateResult(st, path, opts) ==
    IF st[path] # Nil /\ opts.SHA = Some(st[path][1].SHA)
    THEN [err |-> "nil",
          st |-> [st EXCEPT ![path] = Some([SHA |-> st[path][1].SHA + 1, content |-> opts.Content])]]
    ELSE [err |-> "Err409", st |-> st]

\* Somebody else commits to the path of the tap repository.
ExternalWrite(path) ==
    /\ RevSum(store, Paths) < MaxRev
    /\ store' = [store EXCEPT ![path] =
                    Some([SHA |-> IF @ = Nil THEN 1 ELSE @[1].SHA + 1,
                          content |-> << <<"e","x","t","e","r","n","a","l"," ","e","d","i","t">> >>])]
    /\ UNCHANGED <<pc, brew, hasToken, artifact, sum, data, content, dist, options, resp,
                   werr, calls, trace, exit>>
    /\ UNCHANGED pure

----------------------------------------------------------------------------
(* upload.                                                                 *)

\* The record of one call to the GitHub API.
Call(op, b, path, opts) ==
    [op |-> op, owner |-> b.BrewOwner, repo |-> b.BrewRepo, path |-> path, options |-> opts]

\* LookupEnv without the test of found: upload goes on with an empty token.
LookupEnvUnchecked(p) ==
    /\ pc[p] = "upload"
    /\ trace' = [trace EXCEPT ![p] = Append(@, "upload")]
    /\ options' = [options EXCEPT ![p] =
                      Some(Options(brew[p][1], content[p][1], Message(artifact[p][1])))]
    /\ pc' = [pc EXCEPT ![p] = "get"]
    /\ UNCHANGED <<brew, hasToken, artifact, sum, data, content, dist, resp, werr, calls, exit, store>>
    /\ UNCHANGED pure

\* Lines 103-104, 112-131: runCreate calls upload; without GH_TOOLS_TOKEN
\* log.Fatalln ends the process, otherwise the client and the options of the
\* write are built.
LookupEnv(p) ==
    /\ pc[p] = "upload"
    /\ trace' = [trace EXCEPT ![p] = Append(@, "upload")]
    /\ IF ~hasToken[p]
       THEN /\ pc' = [pc EXCEPT ![p] = "fatal"]
            /\ exit' = [exit EXCEPT ![p] = "ErrNoToken"]
            /\ UNCHANGED options
       ELSE /\ options' = [options EXCEPT ![p] =
                              Some(Options(brew[p][1], content[p][1], Message(artifact[p][1])))]
            /\ pc' = [pc EXCEPT ![p] = "get"]
            /\ UNCHANGED exit
    /\ UNCHANGED <<brew, hasToken, artifact, sum, data, content, dist, resp, werr, calls, store>>
    /\ UNCHANGED pure

\* Branch without the test for 404: every error of GetContents is returned.
BranchNotFoundIsError(r) ==
    IF r.err # "nil" /\ r.res = Nil THEN "panic"
    ELSE IF r.err # "nil" THEN "return"
    ELSE IF r.file = Nil THEN "panic"
    ELSE "update"

\* Branch that creates whenever GetContents answered at all.
BranchAlwaysCreate(r) ==
    IF r.err # "nil" /\ r.res = Nil THEN "panic"
    ELSE IF r.err # "nil" /\ r.res[1].StatusCode # 404 THEN "return"
    ELSE "create"

\* Lines 141-155: what upload does with the answer of GetContents. "panic" is
\* the nil dereference of res (line 141) or of file (line 155).
Branch(r) ==
    IF r.err # "nil" /\ r.res = Nil THEN "panic"
    ELSE IF r.err # "nil" /\ r.res[1].StatusCode # 404 THEN "return"
    ELSE IF r.res[1].StatusCode = 404 THEN "create"
    ELSE IF r.file = Nil THEN "panic"
    ELSE "update"

\* WithSHA that forgets the assignment of line 155.
WithSHAForgotten(opts, file) == opts

\* AfterWrite that goes back to GetContents when the SHA was stale.
AfterWriteRetry(err) ==
    IF err = "nil" THEN [pc |-> "done", exit |-> "ok"]
    ELSE IF err = "Err409" THEN [pc |-> "get", exit |-> ""]
    ELSE [pc |-> "fatal", exit |-> err]

\* AfterWrite in a runCreate that drops the error of upload.
AfterWriteIgnored(err) == [pc |-> "done", exit |-> "ok"]

\* Line 155: the SHA of the file GetContents returned goes into the options.
WithSHA(opts, file) == [opts EXCEPT !.SHA = Some(file.SHA)]

\* Lines 153, 163 and 105-107: upload returns the error of the write, and
\* runCreate ends in log.Fatal when it is not nil.
AfterWrite(err) ==
    IF err = "nil" THEN [pc |-> "done", exit |-> "ok"] ELSE [pc |-> "fatal", exit |-> err]

\* Lines 133-155: GetContents is called for the path, and upload branches on
\* its answer; a returned error is fatal in runCreate (lines 105-107).
GetContents(p, faults) ==
    /\ pc[p] = "get"
    /\ LET path == RemotePath(brew[p][1])
       IN  /\ calls' = [calls EXCEPT ![p] = Append(@, Call("GetContents", brew[p][1], path, Nil))]
           /\ \E r \in {Lookup(store, path)} \cup faults :
                 /\ resp' = [resp EXCEPT ![p] = Some(r)]
                 /\ pc' = [pc EXCEPT ![p] =
                             CASE Branch(r) = "panic"  -> "panic"
                               [] Branch(r) = "return" -> "fatal"
                               [] Branch(r) = "create" -> "create"
                               [] Branch(r) = "update" -> "update"]
                 /\ exit' = [exit EXCEPT ![p] =
                             CASE Branch(r) = "panic"  -> "panic"
                               [] Branch(r) = "return" -> r.err
                               [] OTHER -> @]
                 /\ options' = [options EXCEPT ![p] =
                             IF Branch(r) = "update"
                             THEN Some(WithSHA(@[1], r.file[1]))
                             ELSE @]
    /\ UNCHANGED <<brew, hasToken, artifact, sum, data, content, dist, werr, trace, store>>
    /\ UNCHANGED pure

\* Lines 146-153, 105-107: CreateFile with the options; its error is returned
\* and is fatal in runCreate.
CreateFile(p, faults) ==
    /\ pc[p] = "create"
    /\ LET path == RemotePath(brew[p][1])
           opts == options[p][1]
       IN  /\ calls' = [calls EXCEPT ![p] = Append(@, Call("CreateFile", brew[p][1], path, Some(opts)))]
           /\ \E r \in {CreateResult(store, path, opts)} \cup {[err |-> e, st |-> store] : e \in faults} :
                 /\ store' = r.st
                 /\ werr' = [werr EXCEPT ![p] = r.err]
                 /\ pc' = [pc EXCEPT ![p] = AfterWrite(r.err).pc]
                 /\ exit' = [exit EXCEPT ![p] = AfterWrite(r.err).exit]
    /\ UNCHANGED <<brew, hasToken, artifact, sum, data, content, dist, options, resp, trace>>
    /\ UNCHANGED pure

\* Lines 156-163, 105-107: UpdateFile with the options, which carry the SHA;
\* its error is returned and is fatal in runCreate.
UpdateFile(p, faults) ==
    /\ pc[p] = "update"
    /\ LET path == RemotePath(brew[p][1])
           opts == options[p][1]
       IN  /\ calls' = [calls EXCEPT ![p] = Append(@, Call("UpdateFile", brew[p][1], path, Some(opts)))]
           /\ \E r \in {UpdateResult(store, path, opts)} \cup {[err |-> e, st |-> store] : e \in faults} :
                 /\ store' = r.st
                 /\ werr' = [werr EXCEPT ![p] = r.err]
                 /\ pc' = [pc EXCEPT ![p] = AfterWrite(r.err).pc]
                 /\ exit' = [exit EXCEPT ![p] = AfterWrite(r.err).exit]
    /\ UNCHANGED <<brew, hasToken, artifact, sum, data, content, dist, options, resp, trace>>
    /\ UNCHANGED pure

Terminated(p) == pc[p] \in {"done", "fatal", "panic"}

\* The process has exited: nothing of it is left.
Exit(p) ==
    /\ Terminated(p)
    /\ pc' = [pc EXCEPT ![p] = "idle"]
    /\ brew' = [brew EXCEPT ![p] = Nil]
    /\ hasToken' = [hasToken EXCEPT ![p] = FALSE]
    /\ artifact' = [artifact EXCEPT ![p] = Nil]
    /\ sum' = [sum EXCEPT ![p] = Nil]
    /\ data' = [data EXCEPT ![p] = Nil]
    /\ content' = [content EXCEPT ![p] = Nil]
    /\ dist' = [dist EXCEPT ![p] = Nil]
    /\ options' = [options EXCEPT ![p] = Nil]
    /\ resp' = [resp EXCEPT ![p] = Nil]
    /\ werr' = [werr EXCEPT ![p] = ""]
    /\ calls' = [calls EXCEPT ![p] = <<>>]
    /\ trace' = [trace EXCEPT ![p] = <<>>]
    /\ exit' = [exit EXCEPT ![p] = ""]
    /\ UNCHANGED store
    /\ UNCHANGED pure

----------------------------------------------------------------------------
(* Specifications.                                                         *)

\* No other process is running the command.
Alone(p) == \A q \in Procs \ {p} : pc[q] = "idle"

\* The steps of process p up to the calls of the GitHub API.
Local(p) ==
    \/ ResolveTag(p)
    \/ Calculate(p)
    \/ DataFor(p)
    \/ DoBuildFormula(p)
    \/ WriteFile(p)
    \/ SkipUpload(p)
    \/ LookupEnv(p)
    \/ Exit(p)

\* Invocations run one at a time, against a repository that others commit to
\* and an API that may fail.
Next ==
    \/ \E p \in Procs : Alone(p) /\ Start(p)
    \/ \E p \in Procs : Local(p)
    \/ \E p \in Procs : GetContents(p, GetFaults)
    \/ \E p \in Procs : CreateFile(p, WriteFaults)
    \/ \E p \in Procs : UpdateFile(p, WriteFaults)
    \/ \E path \in Paths : ExternalWrite(path)

Spec == Init /\ [][Next]_vars

\* Invocations run one at a time, nobody else commits to the tap repository,
\* and the API answers from the state of the repository.
NextSerial ==
    \/ \E p \in Procs : Alone(p) /\ Start(p)
    \/ \E p \in Procs : Local(p)
    \/ \E p \in Procs : GetContents(p, {})
    \/ \E p \in Procs : CreateFile(p, {})
    \/ \E p \in Procs : UpdateFile(p, {})

SpecSerial == Init /\ [][NextSerial]_vars

\* Publishers of one repo, with the credential, run at the same time: their
\* statements interleave in any order. Nobody else commits to the tap
\* repository, and the API answers from the state of the repository.
NextRace ==
    \/ \E p \in Procs :
          StartWith(p, Owners \ {<<>>}, Repos \ {<<>>}, {FALSE}, {TRUE})
    \/ \E p \in Procs : Local(p)
    \/ \E p \in Procs : GetContents(p, {})
    \/ \E p \in Procs : CreateFile(p, {})
    \/ \E p \in Procs : UpdateFile(p, {})

SpecRace == Init /\ [][NextRace]_vars

\* A step of the invocation process p runs: each statement of runCreate and
\* upload, and each call it makes, returns.
Step(p) ==
    \/ ResolveTag(p)
    \/ Calculate(p)
    \/ DataFor(p)
    \/ DoBuildFormula(p)
    \/ WriteFile(p)
    \/ SkipUpload(p)
    \/ LookupEnv(p)
    \/ GetContents(p, GetFaults)
    \/ CreateFile(p, WriteFaults)
    \/ UpdateFile(p, WriteFaults)

----------------------------------------------------------------------------
(* The pure functions, applied to bounded inputs.                          *)

\* The longest string drawn from the alphabet.
MaxLen == 4

\* Characters of each class the functions tell apart: a lower-case and an
\* upper-case letter, the two separators formulaNameFor replaces, the space,
\* the newline, and a punctuation character.
Alphabet == {"a", "B", "-", "_", " ", "\n", "."}

\* Longer inputs: lines with a trailing newline, a blank interior line, padded
\* lines, white space with a tab, and two repository names.
Examples ==
    { <<"a","\n","b","\n">>,
      <<"a","\n","\n","b">>,
      <<"a"," ","\n"," ","b">>,
      <<"\t"," ","\n","\r"," ">>,
      <<"m","y","-","c","o","o","l","_","t","o","o","l">>,
      <<"a","l","r","e","a","d","y">> }

Args == UNION {[1..k -> Alphabet] : k \in 0..MaxLen} \cup Examples

InitPure ==
    /\ InitRun
    /\ arg \in Args
    /\ fn = ""
    /\ ret = <<>>

\* split(arg).
ApplySplit ==
    /\ fn = ""
    /\ fn' = "split"
    /\ ret' = split(arg)
    /\ UNCHANGED <<arg, run>>

\* formulaNameFor(arg).
ApplyFormulaNameFor ==
    /\ fn = ""
    /\ fn' = "formulaNameFor"
    /\ ret' = formulaNameFor(arg)
    /\ UNCHANGED <<arg, run>>

\* dataFor, lines 184-206, for the Homebrew value and the Artifact runCreate
\* builds from the repo name arg: file is what the file system answers for
\* the artifact path, sum and err are what calculate returned, result is the
\* templateData (none when calculate failed).
ApplyDataFor ==
    /\ fn = ""
    /\ fn' = "dataFor"
    /\ \E file \in ArtifactFiles \cup {[err |-> "nil", bytes |-> <<>>]}, tag \in Tags :
          LET b == WithNameAndInstall(Homebrew(<<>>, arg, FALSE))
              a == Artifact(b, tag)
              r == calculate(file)
          IN  ret' = [ file   |-> file,
                       sum    |-> r.sum,
                       err    |-> r.err,
                       result |-> IF r.err # "nil" THEN Nil ELSE Some(templateData(b, a, r.sum)) ]
    /\ UNCHANGED <<arg, run>>

NextPure ==
    \/ ApplySplit
    \/ ApplyFormulaNameFor
    \/ ApplyDataFor

SpecPure == InitPure /\ [][NextPure]_vars

----------------------------------------------------------------------------
(* Properties.                                                             *)

Stages == <<"tag", "calculate", "dataFor", "render", "write", "upload">>

IsPrefix(s, t) == Len(s) <= Len(t) /\ s = SubSeq(t, 1, Len(s))

\* The operations of the calls process p made, in order.
Ops(p) == [i \in DOMAIN calls[p] |-> calls[p][i].op]

Count(p, ops) == Cardinality({i \in DOMAIN calls[p] : calls[p][i].op \in ops})

\* The call is a write of p's rendered formula to p's path of the tap
\* repository, with the commit message and the committer of p, and sha as SHA.
IsWriteOf(p, call, op, sha) ==
    /\ call.op = op
    /\ call.owner = brew[p][1].BrewOwner
    /\ call.repo = brew[p][1].BrewRepo
    /\ call.path = RemotePath(brew[p][1])
    /\ call.options # Nil
    /\ call.options[1].Content = content[p][1]
    /\ call.options[1].Message = Message(artifact[p][1])
    /\ call.options[1].Committer = [Name |-> brew[p][1].Author, Email |-> brew[p][1].AuthorEmail]
    /\ call.options[1].SHA = sha

NotFound(p) == resp[p] # Nil /\ resp[p][1].res = Some([StatusCode |-> 404])

Found(p) == resp[p] # Nil /\ resp[p][1].err = "nil" /\ resp[p][1].file # Nil

\* C1: when GetContents reports 404, the invocation calls CreateFile exactly
\* once, with the rendered content, the commit message, the committer and no
\* SHA, and never calls UpdateFile: after the 404 the process is about to
\* create, or has ended with GetContents and that one CreateFile as its calls.
C1_CreateOnNotFound ==
    \A p \in Procs :
        NotFound(p) =>
            /\ pc[p] \in {"create", "done", "fatal"}
            /\ Count(p, {"UpdateFile"}) = 0
            /\ Count(p, {"CreateFile"}) = IF pc[p] = "create" THEN 0 ELSE 1
            /\ pc[p] # "create" =>
                  /\ Ops(p) = <<"GetContents", "CreateFile">>
                  /\ IsWriteOf(p, calls[p][2], "CreateFile", Nil)

C1_Witness ==
    \E p \in Procs :
        NotFound(p) /\ pc[p] = "done" /\ Ops(p) = <<"GetContents", "CreateFile">>

\* C2: when GetContents succeeds with a file of SHA T, the invocation calls
\* UpdateFile exactly once and never CreateFile, and the SHA of that UpdateFile
\* is the T of the GetContents of this invocation.
C2_UpdateCarriesToken ==
    \A p \in Procs :
        Found(p) =>
            LET T == resp[p][1].file[1].SHA
            IN  /\ pc[p] \in {"update", "done", "fatal"}
                /\ Count(p, {"CreateFile"}) = 0
                /\ Count(p, {"UpdateFile"}) = IF pc[p] = "update" THEN 0 ELSE 1
                /\ options[p][1].SHA = Some(T)
                /\ pc[p] # "update" =>
                      /\ Ops(p) = <<"GetContents", "UpdateFile">>
                      /\ IsWriteOf(p, calls[p][2], "UpdateFile", Some(T))

\* An update of a file that an earlier invocation had already updated: the
\* SHA it carries is 2, the one its own GetContents returned.
C2_Witness ==
    \E p \in Procs :
        /\ Found(p) /\ pc[p] = "done"
        /\ resp[p][1].file[1].SHA = 2
        /\ Ops(p) = <<"GetContents", "UpdateFile">>

\* C3: when GetContents fails with an error other than not-found (a bad
\* credential, a rate limit, a server error, a transport failure with no
\* response), upload returns that error, the invocation ends with it, and
\* neither CreateFile nor UpdateFile is called.
C3_GetErrorReturned ==
    \A p \in Procs :
        (resp[p] # Nil /\ resp[p][1].err \notin {"nil", "Err404"}) =>
            /\ pc[p] = "fatal"
            /\ exit[p] = resp[p][1].err
            /\ Ops(p) = <<"GetContents">>

\* C4: when UpdateFile is rejected because the SHA is stale, the invocation
\* ends in failure with that error and makes no further call: its calls stay
\* the one GetContents and the one UpdateFile.
C4_StaleSurfaced ==
    \A p \in Procs :
        werr[p] = "Err409" =>
            /\ pc[p] = "fatal"
            /\ exit[p] = "Err409"
            /\ Ops(p) = <<"GetContents", "UpdateFile">>

\* The file changed between the GetContents and the UpdateFile of p.
C4_Witness ==
    \E p \in Procs :
        /\ werr[p] = "Err409"
        /\ Found(p)
        /\ store[RemotePath(brew[p][1])][1].SHA # resp[p][1].file[1].SHA

\* C5: invocations that run one after another against a repository that
\* accepts a create of an absent path and an update with the current SHA:
\* every invocation that holds the credential and reaches upload succeeds,
\* the first one to a path by CreateFile and every later one by UpdateFile,
\* and when it ends the file at the path holds the content it rendered.
C5_SerialPublish ==
    \A p \in Procs :
        (Terminated(p) /\ hasToken[p] /\ Len(trace[p]) = Len(Stages)) =>
            LET f == store[RemotePath(brew[p][1])]
            IN  /\ exit[p] = "ok"
                /\ f # Nil
                /\ f[1].content = content[p][1]
                /\ Ops(p) = IF f[1].SHA = 1
                            THEN <<"GetContents", "CreateFile">>
                            ELSE <<"GetContents", "UpdateFile">>

\* The third publish to a path.
C5_Witness ==
    \E p \in Procs :
        /\ pc[p] = "done"
        /\ Ops(p) = <<"GetContents", "UpdateFile">>
        /\ store[RemotePath(brew[p][1])][1].SHA = 3

\* C6: the stages of an invocation happen in the order tag, digest, record,
\* render, local write, publish; each stage has the result of the one before
\* it; the local file is written in every invocation that gets past the
\* render, with or without --skip-upload; and no call of the GitHub API is
\* made before the local file is written.
C6_StageOrder ==
    \A p \in Procs :
        /\ IsPrefix(trace[p], Stages)
        /\ sum[p] # Nil => artifact[p] # Nil
        /\ data[p] # Nil => sum[p] # Nil
        /\ content[p] # Nil => data[p] # Nil
        /\ dist[p] # Nil => content[p] # Nil
        /\ (pc[p] \in {"skip", "upload", "get", "create", "update", "done"} \/ calls[p] # <<>>)
              => (dist[p] # Nil /\ dist[p] = content[p])
        /\ calls[p] # <<>> => trace[p] = Stages

C6_Witness ==
    \E p \in Procs :
        /\ pc[p] = "done" /\ ~brew[p][1].SkipUpload
        /\ Len(calls[p]) = 2 /\ dist[p] = content[p] /\ dist[p] # Nil

\* The stage (its index in Stages) an error comes from.
ErrStage(e) ==
    CASE e = "ErrGit" -> 1
      [] e \in {"ErrOpen", "ErrRead"} -> 2
      [] e = "ErrTemplate" -> 4
      [] e = "ErrWrite" -> 5
      [] OTHER -> 6

\* C7: once a stage has failed no later stage is executed: the stages executed
\* end with the failing one and the process has ended; nothing is rendered or
\* written locally after a digest failure, nothing written after a render
\* failure, no call of the GitHub API after a failure before upload, no
\* write call after a failed GetContents and no call after a failed write.
C7_FailFast ==
    \A p \in Procs :
        exit[p] \notin {"", "ok"} =>
            LET n == ErrStage(exit[p])
            IN  /\ pc[p] \in {"fatal", "panic"}
                /\ trace[p] = SubSeq(Stages, 1, n)
                /\ n <= 2 => (data[p] = Nil /\ content[p] = Nil)
                /\ n < 5 => dist[p] = Nil
                /\ n < 6 => calls[p] = <<>>
                /\ exit[p] = "ErrNoToken" => calls[p] = <<>>
                /\ (resp[p] # Nil /\ exit[p] = resp[p][1].err) => Ops(p) = <<"GetContents">>
                /\ exit[p] = werr[p] => Len(calls[p]) = 2

\* A failed local write.
C7_Witness ==
    \E p \in Procs :
        exit[p] = "ErrWrite" /\ ~brew[p][1].SkipUpload /\ hasToken[p] /\ pc[p] = "fatal"

\* C8: with publishing enabled and GH_TOOLS_TOKEN not set, no call of the
\* GitHub API is made, and an invocation that reaches upload ends there in the
\* fatal error of the missing token.
C8_NoTokenNoCall ==
    \A p \in Procs :
        (brew[p] # Nil /\ ~brew[p][1].SkipUpload /\ ~hasToken[p]) =>
            /\ calls[p] = <<>>
            /\ pc[p] \notin {"get", "create", "update", "done"}
            /\ "upload" \in Range(trace[p]) => (pc[p] = "fatal" /\ exit[p] = "ErrNoToken")

C8_Witness ==
    \E p \in Procs :
        /\ exit[p] = "ErrNoToken" /\ pc[p] = "fatal"
        /\ ~brew[p][1].SkipUpload /\ ~hasToken[p]
        /\ dist[p] # Nil /\ calls[p] = <<>>

\* C9: in one invocation GetContents is called at most once, and CreateFile
\* and UpdateFile at most once in total, whatever the calls return.
C9_NoRetry ==
    \A p \in Procs :
        /\ Count(p, {"GetContents"}) <= 1
        /\ Count(p, {"CreateFile", "UpdateFile"}) <= 1
        /\ Len(calls[p]) <= 2

\* A write that failed and was not repeated.
C9_Witness ==
    \E p \in Procs :
        /\ Terminated(p)
        /\ werr[p] \in {"Err409", "Err422", "Err502"}
        /\ Len(calls[p]) = 2

\* C10: with publishing enabled and an empty owner or an empty repo the
\* invocation is rejected before upload: no call of the GitHub API is made
\* with an empty owner or repo in the release metadata.
C10_OwnerRepoRequired ==
    \A p \in Procs :
        (brew[p] # Nil /\ ~brew[p][1].SkipUpload
            /\ (brew[p][1].Owner = <<>> \/ brew[p][1].Repo = <<>>)) =>
                /\ calls[p] = <<>>
                /\ "upload" \notin Range(trace[p])

\* The invocation of p went through the whole pipeline without an error.
Completed(p) ==
    /\ pc[p] = "done"
    /\ content[p] # Nil /\ dist[p] = content[p]
    /\ IF brew[p][1].SkipUpload
       THEN calls[p] = <<>> /\ werr[p] = "" /\ trace[p] = SubSeq(Stages, 1, 5)
       ELSE /\ trace[p] = Stages
            /\ Count(p, {"GetContents"}) = 1
            /\ Count(p, {"CreateFile", "UpdateFile"}) = 1
            /\ resp[p] # Nil /\ resp[p][1].err \in {"nil", "Err404"}
            /\ werr[p] = "nil"
            /\ store[RemotePath(brew[p][1])] # Nil

Running(p) == pc[p] \notin {"idle", "done", "fatal", "panic"}

\* The number of statements p may still execute, at most.
Rank(p) ==
    CASE pc[p] = "tag" -> 10
      [] pc[p] = "calculate" -> 9
      [] pc[p] = "dataFor" -> 8
      [] pc[p] = "render" -> 7
      [] pc[p] = "write" -> 6
      [] pc[p] = "skip" -> 5
      [] pc[p] = "upload" -> 4
      [] pc[p] = "get" -> 3
      [] pc[p] \in {"create", "update"} -> 2
      [] OTHER -> 0

\* Everything of process p.
LocalState(p) ==
    <<pc[p], brew[p], hasToken[p], artifact[p], sum[p], data[p], content[p], dist[p],
      options[p], resp[p], werr[p], calls[p], trace[p], exit[p]>>

\* C11: every invocation terminates when each call it makes returns: a
\* running invocation always has a next statement that can run, and every
\* statement it runs brings it nearer to its end; it ends either in success,
\* having rendered, written the local file and (when publishing) made exactly
\* one successful write, or in failure; it is never in success after a stage
\* failed.
C11_Terminates ==
    /\ [](\A p \in Procs :
            /\ Running(p) => ENABLED Step(p)
            /\ exit[p] = "ok" <=> pc[p] = "done"
            /\ exit[p] = "ok" => Completed(p)
            /\ Terminated(p) <=> exit[p] # ""
            /\ pc[p] \in {"fatal", "panic"} => exit[p] \notin {"", "ok", "nil"})
    /\ [][\A p \in Procs :
            Running(p) => (Rank(p)' < Rank(p) \/ LocalState(p)' = LocalState(p))]_vars

\* A publishing invocation that ended in success.
C11_Witness ==
    \E p \in Procs : pc[p] = "done" /\ ~brew[p][1].SkipUpload /\ Completed(p)

\* C12: the install lines of every templateData dataFor builds are not empty,
\* whatever the repo name is (the empty name, and names with white space and
\* newlines, included).
C12_InstallNotEmpty ==
    (fn = "dataFor" /\ ret.result # Nil) => Len(ret.result[1].Install) >= 1

\* The record built for the empty repo name: its one install line.
C12_Witness ==
    /\ fn = "dataFor" /\ arg = <<>> /\ ret.result # Nil
    /\ ret.result[1].Install =
          << <<"b","i","n",".","i","n","s","t","a","l","l"," ">> \o DarwinAmd64 >>

AllSpace(s) == \A i \in DOMAIN s : IsSpace(s[i])

\* C13: split of an empty or all-white-space string is the empty sequence
\* (never the sequence holding one empty string), and split of "a\nb\n" is
\* <<"a", "b">>.
C13_SplitBlank ==
    fn = "split" =>
        /\ AllSpace(arg) => (ret = <<>> /\ Len(ret) = 0)
        /\ arg = <<"a","\n","b","\n">> => ret = << <<"a">>, <<"b">> >>

C13_Witness ==
    fn = "split" /\ arg = <<"\t"," ","\n","\r"," ">> /\ ret = <<>>

\* C14: every element split returns is a non-empty line without leading or
\* trailing white space and without a newline, and the elements are the
\* non-blank lines of the input, trimmed, in their order.
C14_SplitTrimmedLines ==
    fn = "split" =>
        /\ \A i \in DOMAIN ret :
              /\ ret[i] # <<>>
              /\ TrimSpace(ret[i]) = ret[i]
              /\ "\n" \notin Range(ret[i])
        /\ LET lines == SplitLines(arg, <<>>)
               kept == SelectSeq(lines, LAMBDA l : ~AllSpace(l))
           IN  ret = [i \in DOMAIN kept |-> TrimSpace(kept[i])]

\* The name the way the words are read: "-" and "_" count as a space, the
\* first character of the name and every character after a delimiter goes
\* through ToTitle, every other character is kept, and the spaces are left
\* out. With ws the delimiters are the white-space characters; without, every
\* character that is not a letter or a digit.
RECURSIVE Normalize(_, _, _)
Normalize(s, atStart, ws) ==
    IF s = <<>> THEN <<>>
    ELSE LET c == IF Head(s) \in {"-", "_"} THEN " " ELSE Head(s)
             delim == IF ws THEN IsSpace(c)
                      ELSE c \notin Range(Lower) \cup Range(Upper) \cup Range(Digits)
         IN  (IF c = " " THEN <<>> ELSE <<IF atStart THEN ToTitle(c) ELSE c>>)
                 \o Normalize(Tail(s), delim, ws)

NameExamples ==
    /\ arg = <<"m","y","-","c","o","o","l","_","t","o","o","l">>
          => ret = <<"M","y","C","o","o","l","T","o","o","l">>
    /\ arg = <<"a","l","r","e","a","d","y">> => ret = <<"A","l","r","e","a","d","y">>
    /\ arg = <<>> => ret = <<>>
    /\ Range(ret) \cap {"-", "_", " "} = {}

\* C15, as claimed: formulaNameFor replaces "-" and "_" by a space, upper-cases
\* the first letter of each white-space-delimited word, leaves the rest of the
\* word unchanged and removes the spaces.
C15_TitleByWhiteSpace ==
    fn = "formulaNameFor" => (ret = Normalize(arg, TRUE, TRUE) /\ NameExamples)

\* C15, amended: a word starts at the start of the name and after every
\* character that is not a letter or a digit (a "." as well as white space);
\* the examples hold and the result has no "-", "_" or space.
C15_TitleBySeparator ==
    fn = "formulaNameFor" => (ret = Normalize(arg, TRUE, FALSE) /\ NameExamples)

\* A name with a ".": the letter after it is upper-cased.
C15_Witness ==
    fn = "formulaNameFor" /\ arg = <<"a",".","a","B">> /\ ret = <<"A",".","A","B">>

HexDigits == Range(Digits) \cup {"a", "b", "c", "d", "e", "f"}

\* C16: calculate returns the digest of the whole file and no error, or the
\* empty string and the error of the open or the read; dataFor builds no
\* templateData when calculate failed; the SHA256 of every templateData is 64
\* lower-case hex digits, the digest calculate returned.
C16_DigestWholeOrError ==
    fn = "dataFor" =>
        /\ ret.file.err # "nil" =>
              (ret.sum = <<>> /\ ret.err = ret.file.err /\ ret.result = Nil)
        /\ ret.file.err = "nil" =>
              /\ ret.err = "nil"
              /\ ret.sum = Sha256Hex(ret.file.bytes)
              /\ ret.result # Nil
        /\ (ret.file.err = "nil" /\ ret.file.bytes = <<"h","e","l","l","o">>) =>
              SubSeq(ret.sum, 1, 8) = <<"2","c","f","2","4","d","b","a">>
        /\ ret.result # Nil =>
              /\ ret.result[1].SHA256 = ret.sum
              /\ Len(ret.result[1].SHA256) = 64
              /\ Range(ret.result[1].SHA256) \subseteq HexDigits

\* A read that failed after the open: no digest and no record.
C16_Witness ==
    /\ fn = "dataFor" /\ ret.file.err = "ErrRead"
    /\ ret.sum = <<>> /\ ret.err = "ErrRead" /\ ret.result = Nil

\* What the GetContents of p saw at its path: no file, or the SHA of the file.
Observed(p) == IF NotFound(p) THEN Nil ELSE Some(resp[p][1].file[1].SHA)

\* What is at the path of p now.
Current(p) ==
    LET f == store[RemotePath(brew[p][1])]
    IN  IF f = Nil THEN Nil ELSE Some(f[1].SHA)

\* C18: in every interleaving of publishers of one path, a write changes the
\* repository only if the path is still as the writer's own GetContents saw
\* it; a publisher whose path was changed by another since its GetContents
\* ends in failure and leaves the repository, and so the other's content, as
\* it is.
C18_NoLostUpdate ==
    [][\A p \in Procs :
          (pc[p] \in {"create", "update"} /\ pc'[p] # pc[p]) =>
              IF Current(p) = Observed(p)
              THEN /\ exit'[p] = "ok"
                   /\ store'[RemotePath(brew[p][1])][1].content = content[p][1]
              ELSE /\ pc'[p] = "fatal"
                   /\ exit'[p] \in {"Err409", "Err422"}
                   /\ store' = store]_vars

\* Two publishers read the same revision; one has updated the file, and the
\* update of the other was rejected.
C18_Witness ==
    \E p, q \in Procs :
        /\ p # q
        /\ exit[q] = "ok" /\ exit[p] = "Err409"
        /\ resp[p] = resp[q]
        /\ content[p] # content[q]
        /\ store[RemotePath(brew[q][1])][1].content = content[q][1]

\* C19: an invocation with --skip-upload makes no call of the GitHub API,
\* never enters upload (where GH_TOOLS_TOKEN is looked up and the options are
\* built), and once the local file is written its one next step is the return
\* of line 100, with success, whether GH_TOOLS_TOKEN is set or not.
C19_SkipUploadLocalOnly ==
    \A p \in Procs :
        (brew[p] # Nil /\ brew[p][1].SkipUpload) =>
            /\ calls[p] = <<>>
            /\ "upload" \notin Range(trace[p])
            /\ pc[p] \notin {"upload", "get", "create", "update", "panic"}
            /\ options[p] = Nil /\ resp[p] = Nil /\ werr[p] = ""
            /\ exit[p] # "ErrNoToken"
            /\ dist[p] # Nil =>
                  /\ dist[p] = content[p]
                  /\ trace[p][Len(trace[p])] = "write"
                  /\ \/ pc[p] = "skip" /\ exit[p] = ""
                     \/ pc[p] = "done" /\ exit[p] = "ok"

\* An invocation with --skip-upload and no GH_TOOLS_TOKEN has written the
\* local file and ended with success.
C19_Witness ==
    \E p \in Procs :
        /\ brew[p] # Nil /\ brew[p][1].SkipUpload /\ ~hasToken[p]
        /\ pc[p] = "done" /\ exit[p] = "ok"
        /\ dist[p] # Nil /\ calls[p] = <<>>

\* C20: every CreateFile and UpdateFile of an invocation carries the bytes the
\* invocation wrote to its local file, the commit message of line 103 and the
\* committer of the flags, the same in both branches.
C20_WriteCarriesLocalContent ==
    \A p \in Procs :
        \A i \in 1..Len(calls[p]) :
            calls[p][i].op \in {"CreateFile", "UpdateFile"} =>
                /\ dist[p] # Nil
                /\ calls[p][i].options # Nil
                /\ calls[p][i].options[1].Content = dist[p][1]
                /\ calls[p][i].options[1].Message = Message(artifact[p][1])
                /\ calls[p][i].options[1].Committer =
                      [Name |-> brew[p][1].Author, Email |-> brew[p][1].AuthorEmail]
                /\ calls[p][i].path = RemotePath(brew[p][1])

\* An invocation has written a formula that is not empty to its local file
\* and has sent the same bytes in a CreateFile or an UpdateFile.
C20_Witness ==
    \E p \in Procs :
        /\ dist[p] # Nil /\ dist[p][1] # <<>>
        /\ \E i \in 1..Len(calls[p]) :
              /\ calls[p][i].op \in {"CreateFile", "UpdateFile"}
              /\ calls[p][i].options[1].Content = dist[p][1]

====
